---- MODULE Spec2Model ----
(***************************************************************************)
(* Model of the QuickBooks Online client of stripe2qbo                      *)
(* (src/stripe2qbo/qbo/QBO.py).  The client is synchronous and              *)
(* single-threaded, so every public method is one action; the answers of    *)
(* the remote accounting service are the nondeterministic inputs of the     *)
(* action.  The remote service keeps the customers, items and accounts of   *)
(* one company; the client keeps only realm_id and access_token.            *)
(*                                                                          *)
(* Python values: None is the empty sequence NONE and a present optional    *)
(* value x is <<x>>; a dict is a function from its keys; a list is a        *)
(* sequence; an id is a number (the service's opaque Id string).            *)
(***************************************************************************)
EXTENDS Integers, Sequences, FiniteSets, TLC

VARIABLES
    realm_id,       \* QBO.realm_id
    access_token,   \* QBO.access_token
    customers,      \* remote: the company's Customer entities, in query order
    items,          \* remote: the company's Item entities, in query order
    accounts,       \* remote: the company's Account entities, in query order
    nextId,         \* remote: the next Id the service assigns
    last,           \* the last public call: op, args, result, the exchanges
                    \* with the service, the number of entities it stored
    prev            \* when the last call and the call before it are the same
                    \* get_or_create_* for the same name: the call before it

vars == <<realm_id, access_token, customers, items, accounts, nextId, last, prev>>

----------------------------------------------------------------------------
(* Bounds *)

MaxId == 1          \* Spec: the service assigns at most this many ids
MaxCustomers == 2   \* the company has at most this many customers
MaxCatalog == 2     \* the company has at most this many items and accounts

Names == {"Acme", "Bolt"}
Currencies == {"USD", "EUR"}
AccountTypes == {"Income", "Bank"}
AccountRefs == {"80", "81"}
TaxCodeIds == {"TAX", "NON"}

----------------------------------------------------------------------------
(* Python values *)

NONE == <<>>

EmptyDict == [k \in {} |-> 0]

\* dict.get(key, default)
DictGet(d, key, default) == IF key \in DOMAIN d THEN d[key] ELSE default

\* the outcome of a call: a returned value, or a raised exception
Ok(v) == [kind |-> "ok", value |-> v, raw |-> NONE]

\* kind names the exception by the error kind of the specification:
\*   "Configuration"  Exception("QBO token not set")
\*   "Query"          Exception(f"Query failed: {response.json()}")
\*   "Remote"         Exception(f"Error creating customer: {response.json()}")
\*   "Conflict"       Exception(f"Multiple accounts found with {account_name}")
\*   "KeyError"       KeyError(key) raised by response.json()[key]
\* raw is the response body the message carries, NONE when it carries none.
Err(kind, raw) == [kind |-> kind, value |-> NONE, raw |-> raw]

----------------------------------------------------------------------------
(* The remote service (reached through qbo_request).  Each operator is the  *)
(* set of things the service may do with one request.                       *)

\* a response body without the envelope the client expects
Fault == [Fault |-> [Error |-> "rejected"]]

\* the answers to "select * from <entity> where <field> = '<value>'":
\* a fault, or the matching entities (the service leaves the entity key out
\* when nothing matches)
RemoteQuery(entity, store, field, value) ==
    LET rows == SelectSeq(store, LAMBDA e : e[field] = value)
    IN  {Fault,
         [QueryResponse |->
            IF rows = <<>> THEN EmptyDict ELSE (entity :> rows)]}

\* POST customer: the service rejects it, or stores the customer under a
\* currency of its choosing (a company without multi-currency stores every
\* customer in its home currency)
RemoteCreateCustomer(store, id, body) ==
    {[resp |-> Fault, store |-> store, nextId |-> id]} \cup
    {LET c == [Id |-> id,
               DisplayName |-> body.DisplayName,
               CurrencyRef |-> [value |-> cur, name |-> cur],
               Active |-> TRUE]
     IN  [resp |-> [Customer |-> c],
          store |-> Append(store, c),
          nextId |-> id + 1] : cur \in Currencies}

\* POST item
RemoteCreateItem(store, id, body) ==
    {[resp |-> Fault, store |-> store, nextId |-> id],
     LET i == [Id |-> id, Name |-> body.Name, Type |-> body.Type,
               IncomeAccountRef |-> body.IncomeAccountRef]
     IN  [resp |-> [Item |-> i],
          store |-> Append(store, i),
          nextId |-> id + 1]}

\* POST /account
RemoteCreateAccount(store, id, body) ==
    {[resp |-> Fault, store |-> store, nextId |-> id],
     LET a == [Id |-> id, Name |-> body.Name,
               AccountType |-> body.AccountType]
     IN  [resp |-> [Account |-> a],
          store |-> Append(store, a),
          nextId |-> id + 1]}

\* POST invoice, /payment, /purchase, /transfer: the service rejects the
\* transaction or records it under an Id of its choosing.  The client never
\* reads a transaction back, so the service's transactions are not kept.
TransactionIds == {"145"}

RemoteCreateTransaction(entity, body) ==
    {Fault} \cup {(entity :> ([Id |-> id] @@ body)) : id \in TransactionIds}

\* the tax codes are set up by the company's administrator
TaxCodes ==
    <<[Id |-> "TAX", Name |-> "Sales tax",
       SalesTaxRateList |->
          [TaxRateDetail |-> <<[TaxRateRef |-> [value |-> "3",
                                                name |-> "State"]]>>]]>>

----------------------------------------------------------------------------
(* QBO._request and QBO._query *)

\* _request without its guard
TokenUnset_dropped == FALSE

\* the guard of _request
TokenUnset == access_token = NONE \/ realm_id = NONE

\* one exchange with the service: the arguments _request hands to
\* qbo_request, and the body of the response it returns
Request(path, method, body, response) ==
    [path |-> path, method |-> method, body |-> body,
     access_token |-> access_token, realm_id |-> realm_id,
     response |-> response]

QueryRequest(entity, field, value, response) ==
    Request("/query?query=select * from " \o entity \o " where " \o field
              \o " = '" \o value \o "'", "GET", NONE, response)

\* the check of _query
QueryFailed(resp) == "QueryResponse" \notin DOMAIN resp

\* the effect of a call that leaves the remote service as it is
Out(result, requests) ==
    [result |-> result, requests |-> requests, customers |-> customers,
     items |-> items, accounts |-> accounts, nextId |-> nextId,
     mismatch |-> FALSE]

\* _query raising "Query failed" without the response body
Query_no_body(entity, store, field, value) ==
    IF TokenUnset THEN {Out(Err("Configuration", NONE), <<>>)}
    ELSE {IF QueryFailed(resp)
          THEN Out(Err("Query", NONE),
                   <<QueryRequest(entity, field, value, resp)>>)
          ELSE Out(Ok(<<resp>>), <<QueryRequest(entity, field, value, resp)>>)
          : resp \in RemoteQuery(entity, store, field, value)}

\* _query: the response it returns or the exception it raises
Query(entity, store, field, value) ==
    IF TokenUnset THEN {Out(Err("Configuration", NONE), <<>>)}
    ELSE {IF QueryFailed(resp)
          THEN Out(Err("Query", <<resp>>),
                   <<QueryRequest(entity, field, value, resp)>>)
          ELSE Out(Ok(<<resp>>), <<QueryRequest(entity, field, value, resp)>>)
          : resp \in RemoteQuery(entity, store, field, value)}

\* the call `rest` made after the call `first` returned: it sees the remote
\* state `first` left, and the requests of both were sent
Then(first, rest) ==
    [rest EXCEPT !.requests = first.requests \o rest.requests]

----------------------------------------------------------------------------
(* Tax codes *)

\* TaxCode(**d): pydantic keeps the declared fields only
TaxCodeModel(d) == [Id |-> d.Id, SalesTaxRateList |-> d.SalesTaxRateList]

get_tax_code(tax_code_id) ==
    {IF q.result.kind # "ok" THEN q
     ELSE LET tax_codes == DictGet(q.result.value[1].QueryResponse,
                                   "TaxCode", <<>>)
          IN  IF Len(tax_codes) = 0
              THEN [q EXCEPT !.result = Ok(NONE)]
              ELSE [q EXCEPT !.result = Ok(<<TaxCodeModel(tax_codes[1])>>)]
     : q \in Query("TaxCode", TaxCodes, "Id", tax_code_id)}

----------------------------------------------------------------------------
(* Customers *)

\* Customer(**d): pydantic keeps the declared fields only
CustomerModel(d) ==
    [DisplayName |-> d.DisplayName, Id |-> d.Id,
     CurrencyRef |-> [value |-> d.CurrencyRef.value,
                      name |-> d.CurrencyRef.name]]

get_customer_by_name(customer_name) ==
    {IF q.result.kind # "ok" THEN q
     ELSE LET found == DictGet(q.result.value[1].QueryResponse,
                               "Customer", <<>>)
          IN  IF Len(found) = 0
              THEN [q EXCEPT !.result = Ok(NONE)]
              ELSE [q EXCEPT !.result = Ok(<<found[1]>>)]
     : q \in Query("Customer", customers, "DisplayName", customer_name)}

\* create_customer against the remote state (store, id)
create_customer(store, id, customer_name, currency) ==
    LET body == [DisplayName |-> customer_name,
                 CurrencyRef |-> [value |-> currency]]
    IN  IF TokenUnset THEN {Out(Err("Configuration", NONE), <<>>)}
        ELSE {[Out(IF "Customer" \notin DOMAIN rem.resp
                   THEN Err("Remote", <<rem.resp>>)
                   ELSE Ok(<<CustomerModel(rem.resp.Customer)>>),
                   <<Request("customer", "POST", <<body>>, rem.resp)>>)
                 EXCEPT !.customers = rem.store, !.nextId = rem.nextId]
              : rem \in RemoteCreateCustomer(store, id, body)}

\* get_or_create_customer creating whether or not the lookup found one
get_or_create_customer_always(customer_name, currency) ==
    UNION {
      IF g.result.kind # "ok" THEN {g}
      ELSE {Then(g, c1)
            : c1 \in create_customer(customers, nextId, customer_name,
                                     currency)}
      : g \in get_customer_by_name(customer_name)}

get_or_create_customer(customer_name, currency) ==
    UNION {
      IF g.result.kind # "ok" \/ g.result.value # NONE THEN {g}
      ELSE UNION {
        IF c1.result.kind # "ok"
        THEN {Then(g, c1)}
        ELSE IF c1.result.value[1].CurrencyRef.value # currency
        THEN \* if already exists with different currency, create a new one
             {[Then(Then(g, c1), c2) EXCEPT !.mismatch = TRUE]
              : c2 \in create_customer(c1.customers, c1.nextId,
                         customer_name \o " (" \o currency \o ")", currency)}
        ELSE {Then(g, c1)}
        : c1 \in create_customer(customers, nextId, customer_name, currency)}
      : g \in get_customer_by_name(customer_name)}

----------------------------------------------------------------------------
(* Items *)

ItemRef(value, name) == [value |-> value, name |-> name]

get_item_by_name(item_name) ==
    {IF q.result.kind # "ok" THEN q
     ELSE LET found == DictGet(q.result.value[1].QueryResponse, "Item", <<>>)
          IN  IF Len(found) = 0
              THEN [q EXCEPT !.result = Ok(NONE)]
              ELSE [q EXCEPT !.result =
                      Ok(<<ItemRef(found[1].Id, found[1].Name)>>)]
     : q \in Query("Item", items, "Name", item_name)}

create_item(item_name, account_id) ==
    LET body == [Name |-> item_name, Type |-> "Service",
                 IncomeAccountRef |-> [value |-> account_id]]
    IN  IF TokenUnset THEN {Out(Err("Configuration", NONE), <<>>)}
        ELSE {[Out(IF "Item" \notin DOMAIN rem.resp
                   THEN Err("KeyError", NONE)
                   ELSE Ok(<<ItemRef(rem.resp.Item.Id, rem.resp.Item.Name)>>),
                   <<Request("item", "POST", <<body>>, rem.resp)>>)
                 EXCEPT !.items = rem.store, !.nextId = rem.nextId]
              : rem \in RemoteCreateItem(items, nextId, body)}

get_or_create_item(item_name, account_id) ==
    UNION {
      IF g.result.kind # "ok" \/ g.result.value # NONE THEN {g}
      ELSE {Then(g, c) : c \in create_item(item_name, account_id)}
      : g \in get_item_by_name(item_name)}

----------------------------------------------------------------------------
(* Accounts *)

create_account(account_name, account_type) ==
    LET body == [Name |-> account_name, AccountType |-> account_type]
    IN  IF TokenUnset THEN {Out(Err("Configuration", NONE), <<>>)}
        ELSE {[Out(IF "Account" \notin DOMAIN rem.resp
                   THEN Err("KeyError", NONE)
                   ELSE Ok(<<rem.resp.Account.Id>>),
                   <<Request("/account", "POST", <<body>>, rem.resp)>>)
                 EXCEPT !.accounts = rem.store, !.nextId = rem.nextId]
              : rem \in RemoteCreateAccount(accounts, nextId, body)}

\* get_account_id taking the first of several accounts
get_account_id_first(account_name) ==
    {IF q.result.kind # "ok" THEN q
     ELSE LET found == DictGet(q.result.value[1].QueryResponse,
                               "Account", <<>>)
          IN  IF Len(found) = 0
              THEN [q EXCEPT !.result = Ok(NONE)]
              ELSE [q EXCEPT !.result = Ok(<<found[1].Id>>)]
     : q \in Query("Account", accounts, "Name", account_name)}

get_account_id(account_name) ==
    {IF q.result.kind # "ok" THEN q
     ELSE LET found == DictGet(q.result.value[1].QueryResponse,
                               "Account", <<>>)
          IN  IF Len(found) = 0
              THEN [q EXCEPT !.result = Ok(NONE)]
              ELSE IF Len(found) > 1
              THEN [q EXCEPT !.result = Err("Conflict", NONE)]
              ELSE [q EXCEPT !.result = Ok(<<found[1].Id>>)]
     : q \in Query("Account", accounts, "Name", account_name)}

\* get_or_create_account creating whether or not the lookup found one
get_or_create_account_always(account_name, account_type) ==
    UNION {
      IF g.result.kind # "ok" THEN {g}
      ELSE {Then(g, c) : c \in create_account(account_name, account_type)}
      : g \in get_account_id(account_name)}

get_or_create_account(account_name, account_type) ==
    UNION {
      IF g.result.kind # "ok" \/ g.result.value # NONE THEN {g}
      ELSE {Then(g, c) : c \in create_account(account_name, account_type)}
      : g \in get_account_id(account_name)}

----------------------------------------------------------------------------
(* Transactions *)

\* datetime.strftime("%Y-%m-%d"): the time of day is dropped, month and day
\* are padded to two digits
Pad2(n) == IF n < 10 THEN "0" \o ToString(n) ELSE ToString(n)

strftime(d) == ToString(d.year) \o "-" \o Pad2(d.month) \o "-" \o Pad2(d.day)

\* BaseModel.model_dump(): the dict of the model's fields
model_dump(m) == m

\* a POST whose response is indexed without a check:
\* response.json()[entity]["Id"]
PostTransaction(path, entity, body) ==
    IF TokenUnset THEN {Out(Err("Configuration", NONE), <<>>)}
    ELSE {Out(IF entity \notin DOMAIN resp
              THEN Err("KeyError", NONE)
              ELSE Ok(<<resp[entity].Id>>),
              <<Request(path, "POST", <<body>>, resp)>>)
          : resp \in RemoteCreateTransaction(entity, body)}

\* create_invoice with txn_date written after created_date
InvoiceBody_txn_last(a) ==
    LET body == [CustomerRef |-> [value |-> a.customer_id],
                 CurrencyRef |-> [value |-> a.currency],
                 Line |-> [i \in 1..Len(a.lines) |-> model_dump(a.lines[i])],
                 TxnDate |-> IF a.created_date # NONE
                             THEN <<strftime(a.created_date[1])>> ELSE NONE,
                 DueDate |-> IF a.due_date # NONE
                             THEN <<strftime(a.due_date[1])>> ELSE NONE,
                 TxnTaxDetail |-> IF a.tax_detail # NONE
                                  THEN <<model_dump(a.tax_detail[1])>>
                                  ELSE NONE,
                 PrivateNote |-> a.private_note,
                 DocNumber |-> a.inv_number]
    IN  IF a.txn_date # NONE
        THEN [body EXCEPT !.TxnDate = <<strftime(a.txn_date[1])>>]
        ELSE body

\* the body create_invoice builds
InvoiceBody(a) ==
    LET body == [CustomerRef |-> [value |-> a.customer_id],
                 CurrencyRef |-> [value |-> a.currency],
                 Line |-> [i \in 1..Len(a.lines) |-> model_dump(a.lines[i])],
                 TxnDate |-> IF a.txn_date # NONE
                             THEN <<strftime(a.txn_date[1])>> ELSE NONE,
                 DueDate |-> IF a.due_date # NONE
                             THEN <<strftime(a.due_date[1])>> ELSE NONE,
                 TxnTaxDetail |-> IF a.tax_detail # NONE
                                  THEN <<model_dump(a.tax_detail[1])>>
                                  ELSE NONE,
                 PrivateNote |-> a.private_note,
                 DocNumber |-> a.inv_number]
        body1 == IF a.due_date # NONE
                 THEN [body EXCEPT !.DueDate = <<strftime(a.due_date[1])>>]
                 ELSE body
    IN  IF a.created_date # NONE
        THEN [body1 EXCEPT !.TxnDate = <<strftime(a.created_date[1])>>]
        ELSE body1

create_invoice(a) == PostTransaction("invoice", "Invoice", InvoiceBody(a))

\* the body create_invoice_payment builds; `exchange_rate or "1"` and
\* `if invoice_id` take None, 0 and "" for false
PaymentBody(a) ==
    LET body == [TotalAmt |-> a.amount,
                 CustomerRef |-> [value |-> a.customer_id],
                 TxnDate |-> strftime(a.date),
                 DepositToAccountRef |-> [value |-> a.qbo_account_id],
                 PrivateNote |-> a.private_note,
                 CurrencyRef |-> [value |-> a.currency],
                 ExchangeRate |-> IF a.exchange_rate \in {NONE, <<0>>}
                                  THEN <<"1">> ELSE a.exchange_rate]
    IN  IF a.invoice_id \notin {NONE, <<"">>}
        THEN body @@ [Line |-> <<[Amount |-> a.amount,
                                  LinkedTxn |-> <<[TxnId |-> a.invoice_id[1],
                                                   TxnType |-> "Invoice"]>>]>>]
        ELSE body

create_invoice_payment(a) ==
    PostTransaction("/payment", "Payment", PaymentBody(a))

ExpenseBody(a) ==
    [TotalAmt |-> a.amount,
     AccountRef |-> [value |-> a.bank_account_id],
     PaymentType |-> "Check",
     Line |-> <<[Amount |-> a.amount,
                 DetailType |-> "AccountBasedExpenseLineDetail",
                 AccountBasedExpenseLineDetail |->
                    [AccountRef |-> [value |-> a.expense_account_id]],
                 Description |-> a.description]>>,
     EntityRef |-> [value |-> a.vendor_id],
     TxnDate |-> strftime(a.date),
     PrivateNote |-> a.private_note]

create_expense(a) == PostTransaction("/purchase", "Purchase", ExpenseBody(a))

TransferBody(a) ==
    [Amount |-> a.amount,
     FromAccountRef |-> [value |-> a.source_account_id],
     ToAccountRef |-> [value |-> a.destination_account_id],
     TxnDate |-> strftime(a.date),
     PrivateNote |-> a.private_note]

create_transfer(a) == PostTransaction("/transfer", "Transfer", TransferBody(a))

----------------------------------------------------------------------------
(* The arguments the callers pass *)

\* a Token carries the realm id and the access token of one company
Tokens == {[realm_id |-> "realm-1", access_token |-> "token-1"]}

Dates == {[year |-> 2024, month |-> 1, day |-> 5, hour |-> 9],
          [year |-> 2024, month |-> 11, day |-> 30, hour |-> 0]}

Optional(S) == {NONE} \cup {<<x>> : x \in S}

InvoiceLine(amount, description) ==
    [Amount |-> amount, Description |-> description,
     SalesItemLineDetail |-> [ItemRef |-> ItemRef("1", <<"Sales">>),
                              TaxCodeRef |-> <<[value |-> "TAX"]>>],
     DetailType |-> "SalesItemLineDetail"]

InvoiceLines == {<<InvoiceLine(1000, "Plan")>>,
                 <<InvoiceLine(1000, "Plan"), InvoiceLine(250, "Seat")>>}

TaxDetails == {[TotalTax |-> 125, TaxLine |-> NONE, TxnTaxCodeRef |-> NONE]}

InvoiceArgs ==
    [customer_id : {"1"}, lines : InvoiceLines,
     created_date : Optional(Dates), currency : {"USD"},
     private_note : Optional({"memo"}), due_date : Optional(Dates),
     txn_date : Optional(Dates), tax_detail : Optional(TaxDetails),
     inv_number : Optional({"1001"})]

\* the calls of create_invoice made next to the other operations: nothing
\* optional supplied, or everything
FewInvoiceArgs ==
    {a \in InvoiceArgs :
        /\ Len(a.lines) = 1
        /\ \/ /\ a.created_date = NONE /\ a.private_note = NONE
              /\ a.due_date = NONE /\ a.txn_date = NONE
              /\ a.tax_detail = NONE /\ a.inv_number = NONE
           \/ /\ a.created_date # NONE /\ a.private_note # NONE
              /\ a.due_date = a.created_date /\ a.txn_date = a.created_date
              /\ a.tax_detail # NONE /\ a.inv_number # NONE}

PaymentArgs ==
    [invoice_id : {NONE, <<"">>, <<"7">>}, customer_id : {"1"},
     amount : {1000}, date : {CHOOSE d \in Dates : d.hour # 0},
     qbo_account_id : {"80"},
     currency : {"USD"}, exchange_rate : {NONE, <<0>>, <<2>>},
     private_note : {""}]

ExpenseArgs ==
    [amount : {50}, date : Dates, bank_account_id : {"12"},
     vendor_id : {"7"}, expense_account_id : {"33"}, private_note : {""},
     description : Optional({"Stripe fee"})]

TransferArgs ==
    [amount : {500}, date : Dates, source_account_id : {"80"},
     destination_account_id : {"81"}, private_note : {""}]

----------------------------------------------------------------------------
(* The state machine *)

Init ==
    /\ realm_id = NONE
    /\ access_token = NONE
    /\ customers = <<>>
    /\ items = <<>>
    /\ accounts = <<>>
    /\ nextId = 1
    /\ last = [op |-> "none", args |-> <<>>, result |-> Ok(NONE),
               mismatch |-> FALSE, requests |-> <<>>, stored |-> 0,
               configured |-> FALSE]
    /\ prev = NONE

GetOrCreateOps ==
    {"get_or_create_customer", "get_or_create_item", "get_or_create_account"}

\* a public call op(args) returns or raises, with effect out
Call(op, args, out) ==
    /\ Len(out.customers) <= MaxCustomers
    /\ Len(out.items) + Len(out.accounts) <= MaxCatalog
    /\ last' = [op |-> op, args |-> args, result |-> out.result,
                mismatch |-> out.mismatch, requests |-> out.requests,
                stored |-> out.nextId - nextId,
                configured |-> (access_token # NONE /\ realm_id # NONE)]
    /\ prev' = IF op \in GetOrCreateOps /\ op = last.op
                  /\ args[1] = last.args[1]
               THEN <<[args |-> last.args, result |-> last.result,
                       mismatch |-> last.mismatch]>>
               ELSE NONE
    /\ customers' = out.customers
    /\ items' = out.items
    /\ accounts' = out.accounts
    /\ nextId' = out.nextId
    /\ UNCHANGED <<realm_id, access_token>>

set_token ==
    \E token \in Tokens :
        /\ realm_id' = <<token.realm_id>>
        /\ access_token' = <<token.access_token>>
        /\ UNCHANGED <<customers, items, accounts, nextId, last, prev>>

GetTaxCode ==
    \E id \in TaxCodeIds : \E out \in get_tax_code(id) :
        Call("get_tax_code", <<id>>, out)

GetCustomerByName ==
    \E n \in Names : \E out \in get_customer_by_name(n) :
        Call("get_customer_by_name", <<n>>, out)

CreateCustomer ==
    \E n \in Names, c \in Currencies :
        \E out \in create_customer(customers, nextId, n, c) :
            Call("create_customer", <<n, c>>, out)

GetOrCreateCustomer ==
    \E n \in Names, c \in Currencies :
        \E out \in get_or_create_customer(n, c) :
            Call("get_or_create_customer", <<n, c>>, out)

GetItemByName ==
    \E n \in Names : \E out \in get_item_by_name(n) :
        Call("get_item_by_name", <<n>>, out)

CreateItem ==
    \E n \in Names, a \in AccountRefs : \E out \in create_item(n, a) :
        Call("create_item", <<n, a>>, out)

GetOrCreateItem ==
    \E n \in Names, a \in AccountRefs : \E out \in get_or_create_item(n, a) :
        Call("get_or_create_item", <<n, a>>, out)

GetAccountId ==
    \E n \in Names : \E out \in get_account_id(n) :
        Call("get_account_id", <<n>>, out)

CreateAccount ==
    \E n \in Names, t \in AccountTypes : \E out \in create_account(n, t) :
        Call("create_account", <<n, t>>, out)

GetOrCreateAccount ==
    \E n \in Names, t \in AccountTypes :
        \E out \in get_or_create_account(n, t) :
            Call("get_or_create_account", <<n, t>>, out)

CreateInvoice ==
    \E a \in FewInvoiceArgs : \E out \in create_invoice(a) :
        Call("create_invoice", a, out)

\* create_invoice over all the combinations of its optional arguments
CreateInvoiceAny ==
    \E a \in InvoiceArgs : \E out \in create_invoice(a) :
        Call("create_invoice", a, out)

CreateInvoicePayment ==
    \E a \in PaymentArgs : \E out \in create_invoice_payment(a) :
        Call("create_invoice_payment", a, out)

CreateExpense ==
    \E a \in ExpenseArgs : \E out \in create_expense(a) :
        Call("create_expense", a, out)

CreateTransfer ==
    \E a \in TransferArgs : \E out \in create_transfer(a) :
        Call("create_transfer", a, out)

\* the cap on the ids the service assigns in a run of Spec
Capped == nextId' <= MaxId + 1

\* every public method, in a company of at most MaxId entities
Next ==
    \/ set_token
    \/ GetTaxCode /\ Capped
    \/ GetCustomerByName /\ Capped
    \/ CreateCustomer /\ Capped
    \/ GetOrCreateCustomer /\ Capped
    \/ GetItemByName /\ Capped
    \/ CreateItem /\ Capped
    \/ GetOrCreateItem /\ Capped
    \/ GetAccountId /\ Capped
    \/ CreateAccount /\ Capped
    \/ GetOrCreateAccount /\ Capped
    \/ CreateInvoice /\ Capped
    \/ CreateInvoicePayment /\ Capped
    \/ CreateExpense /\ Capped
    \/ CreateTransfer /\ Capped

Spec == Init /\ [][Next]_vars

\* the customer methods
NextCustomers ==
    \/ set_token
    \/ GetCustomerByName
    \/ CreateCustomer
    \/ GetOrCreateCustomer

SpecCustomers == Init /\ [][NextCustomers]_vars

\* the item and account methods
NextCatalog ==
    \/ set_token
    \/ GetItemByName
    \/ CreateItem
    \/ GetOrCreateItem
    \/ GetAccountId
    \/ CreateAccount
    \/ GetOrCreateAccount

SpecCatalog == Init /\ [][NextCatalog]_vars

\* create_invoice over all the combinations of its optional arguments
NextInvoice ==
    \/ set_token
    \/ CreateInvoiceAny

SpecInvoice == Init /\ [][NextInvoice]_vars

----------------------------------------------------------------------------
(* Properties *)

NoPost(requests) == \A i \in DOMAIN requests : requests[i].method # "POST"

Succeeded(call) == call.result.kind = "ok" /\ call.result.value # NONE

\* the customers the company had when the last call was made
CustomersBefore == SubSeq(customers, 1, Len(customers) - last.stored)

\* C1: two consecutive successful calls get_or_create_customer(N, C), neither
\* taking the currency-mismatch branch, return the same customer Id, and the
\* second call creates no customer.
C1_CustomerIdempotent ==
    (/\ last.op = "get_or_create_customer"
     /\ prev # NONE
     /\ prev[1].args = last.args
     /\ Succeeded(prev[1]) /\ Succeeded(last)
     /\ ~prev[1].mismatch /\ ~last.mismatch)
    => /\ last.result.value[1].Id = prev[1].result.value[1].Id
       /\ NoPost(last.requests)
       /\ last.stored = 0

\* the second of two such calls has returned
C1_Witness ==
    /\ last.op = "get_or_create_customer"
    /\ prev # NONE
    /\ prev[1].args = last.args
    /\ Succeeded(prev[1]) /\ Succeeded(last)
    /\ ~prev[1].mismatch /\ ~last.mismatch
    /\ Len(customers) = 1
    /\ last.result.value[1].Id = customers[1].Id

\* C2: when the company already has a customer named N in currency C1, a
\* successful get_or_create_customer(N, C2) with C2 # C1 posts a new customer
\* named "N (C2)" in currency C2 and returns that customer, not the existing
\* one.
C2_MismatchCreatesNew ==
    (/\ last.op = "get_or_create_customer"
     /\ Succeeded(last)
     /\ \E i \in DOMAIN CustomersBefore :
            /\ CustomersBefore[i].DisplayName = last.args[1]
            /\ CustomersBefore[i].CurrencyRef.value # last.args[2])
    => LET suffixed == last.args[1] \o " (" \o last.args[2] \o ")"
       IN  /\ \E j \in DOMAIN last.requests :
                /\ last.requests[j].method = "POST"
                /\ last.requests[j].body[1].DisplayName = suffixed
                /\ last.requests[j].body[1].CurrencyRef.value = last.args[2]
           /\ last.result.value[1].DisplayName = suffixed
           /\ \A i \in DOMAIN CustomersBefore :
                last.result.value[1].Id # CustomersBefore[i].Id

\* the id a get_or_create_item or get_or_create_account call returned
CatalogId(op, result) ==
    IF op = "get_or_create_item" THEN result.value[1].value
    ELSE result.value[1]

\* C3: two consecutive successful calls of get_or_create_item (or
\* get_or_create_account) with the same name return the same id and the
\* second call posts nothing and stores nothing, whatever account_id
\* (account_type) the two calls pass.
C3_CatalogIdempotent ==
    (/\ last.op \in {"get_or_create_item", "get_or_create_account"}
     /\ prev # NONE
     /\ Succeeded(prev[1]) /\ Succeeded(last))
    => /\ CatalogId(last.op, last.result) = CatalogId(last.op, prev[1].result)
       /\ NoPost(last.requests)
       /\ last.stored = 0

\* the second call passed another account_id than the first
C3_Witness ==
    /\ last.op = "get_or_create_item"
    /\ prev # NONE
    /\ Succeeded(prev[1]) /\ Succeeded(last)
    /\ prev[1].args[2] # last.args[2]
    /\ Len(items) = 1
    /\ items[1].IncomeAccountRef.value = prev[1].args[2]

\* the accounts the account-name query of the last call returned
AccountsFound ==
    DictGet(last.requests[1].response.QueryResponse, "Account", <<>>)

\* C4: when the account-name query of get_account_id or
\* get_or_create_account returns more than one account, the call fails with
\* the Conflict error, posts nothing and stores nothing.
C4_Conflict ==
    (/\ last.op \in {"get_account_id", "get_or_create_account"}
     /\ last.requests # <<>>
     /\ "QueryResponse" \in DOMAIN last.requests[1].response
     /\ Len(AccountsFound) > 1)
    => /\ last.result.kind = "Conflict"
       /\ Len(last.requests) = 1
       /\ last.stored = 0

C4_Witness ==
    /\ last.op = "get_or_create_account"
    /\ last.requests # <<>>
    /\ "QueryResponse" \in DOMAIN last.requests[1].response
    /\ Len(AccountsFound) = 2
    /\ last.result.kind = "Conflict"

\* C5: a call made while access_token or realm_id is unset fails with the
\* Configuration error ("QBO token not set") and sends no request; a call
\* made after set_token never fails with that error.
C5_TokenNotSet ==
    last.op # "none"
    => IF last.configured
       THEN last.result.kind # "Configuration"
       ELSE /\ last.result.kind = "Configuration"
            /\ last.requests = <<>>
            /\ last.stored = 0

C5_Witness ==
    /\ last.op = "get_or_create_customer"
    /\ ~last.configured
    /\ last.result.kind = "Configuration"
    /\ access_token = NONE

\* C6: an optional argument of create_invoice that the caller omits (due
\* date, tax detail, private note, document number) is absent from the
\* request body.
C6_OmittedAbsent ==
    (last.op = "create_invoice" /\ last.requests # <<>>)
    => LET body == last.requests[1].body[1]
       IN  /\ last.args.due_date = NONE => "DueDate" \notin DOMAIN body
           /\ last.args.tax_detail = NONE => "TxnTaxDetail" \notin DOMAIN body
           /\ last.args.private_note = NONE => "PrivateNote" \notin DOMAIN body
           /\ last.args.inv_number = NONE => "DocNumber" \notin DOMAIN body

\* C7: a public method issues one or two network calls, never three or more.
C7_OneOrTwoCalls ==
    (last.op # "none" /\ last.configured)
    => Len(last.requests) \in {1, 2}

\* the key of the created entity in the response of each create operation
EntityKey ==
    [create_customer |-> "Customer", create_item |-> "Item",
     create_account |-> "Account", create_invoice |-> "Invoice",
     create_invoice_payment |-> "Payment", create_expense |-> "Purchase",
     create_transfer |-> "Transfer"]

\* C8: a create operation whose response lacks the entity key fails with the
\* Remote error carrying the response body.
C8_RemoteError ==
    (/\ last.op \in DOMAIN EntityKey
     /\ last.requests # <<>>
     /\ EntityKey[last.op] \notin DOMAIN last.requests[1].response)
    => /\ last.result.kind = "Remote"
       /\ last.result.raw = <<last.requests[1].response>>

QueryOps ==
    {"get_tax_code", "get_customer_by_name", "get_item_by_name",
     "get_account_id"} \cup GetOrCreateOps

\* C9: an operation built on a query fails with the Query error exactly when
\* the response of the query lacks QueryResponse; the error carries the
\* response body, and the operation then sends no other request and stores
\* nothing.
C9_QueryError ==
    (last.op \in QueryOps /\ last.configured)
    => /\ Len(last.requests) >= 1
       /\ last.requests[1].method = "GET"
       /\ IF "QueryResponse" \in DOMAIN last.requests[1].response
          THEN last.result.kind # "Query"
          ELSE /\ last.result.kind = "Query"
               /\ last.result.raw = <<last.requests[1].response>>
               /\ Len(last.requests) = 1
               /\ last.stored = 0

C9_Witness ==
    /\ last.op = "get_or_create_account"
    /\ last.configured
    /\ last.result.kind = "Query"
    /\ last.result.raw = <<Fault>>

\* C10: in the body of create_invoice, TxnDate is created_date when
\* created_date is supplied, whatever txn_date is, and txn_date when only
\* txn_date is supplied; DueDate is a function of due_date alone.
C10_TxnDate ==
    (last.op = "create_invoice" /\ last.requests # <<>>)
    => LET body == last.requests[1].body[1]
           a == last.args
       IN  /\ a.created_date # NONE
                => body.TxnDate = <<strftime(a.created_date[1])>>
           /\ (a.created_date = NONE /\ a.txn_date # NONE)
                => body.TxnDate = <<strftime(a.txn_date[1])>>
           /\ body.DueDate = IF a.due_date = NONE THEN NONE
                             ELSE <<strftime(a.due_date[1])>>

\* both dates supplied, on different days
C10_Witness ==
    /\ last.op = "create_invoice"
    /\ last.requests # <<>>
    /\ last.args.created_date # NONE
    /\ last.args.txn_date # NONE
    /\ last.args.created_date # last.args.txn_date
    /\ last.requests[1].body[1].TxnDate = <<"2024-01-05">>
    /\ last.args.txn_date[1].month = 11

====
